---- MODULE Spec2Model ----
(***************************************************************************)
(* VLASS_Tools: the cutout extractor make_multiple_cutouts                 *)
(* (local_cutouts.py) and the table clipper msclip                         *)
(* (visibilities/clip_ms.py), as state machines.                           *)
(*                                                                         *)
(* Pixel coordinates are fixed-point numbers: the integer q stands for the *)
(* real q / Unit.  Non-finite coordinates are carried by their kind.       *)
(* The image holds the sample r * width + c at row r, column c, so that    *)
(* every sample names its own position and a misplaced copy shows.         *)
(***************************************************************************)
EXTENDS Integers, Sequences, FiniteSets, TLC

VARIABLES image, size, centres, cutouts, i, pc, exc, last,
          ms, tabs, time_clip_tables, fs, shell, t, mpc, ret,
          min_times, max_times, bound, handles

cutVars == <<image, size, centres, cutouts, i, pc, exc, last>>
clipVars == <<ms, tabs, time_clip_tables, fs, shell, t, mpc, ret,
              min_times, max_times, bound, handles>>
vars == <<image, size, centres, cutouts, i, pc, exc, last,
          ms, tabs, time_clip_tables, fs, shell, t, mpc, ret,
          min_times, max_times, bound, handles>>

-----------------------------------------------------------------------------
(* Bounds *)

MaxDim == 5
MaxSize == 5
CoordMargin == 3
MaxCentres == 2
Unit == 4
MaxMsRows == 2
MaxChunk == 1
MaxTime == 2
MaxTabRows == 2

(* np.nan, the fill value of a fresh cutout; samples are never negative *)
NaN == -1

-----------------------------------------------------------------------------
(* Helpers *)

Max(a, b) == IF a >= b THEN a ELSE b
Min(a, b) == IF a <= b THEN a ELSE b

Finite(q) == [kind |-> "finite", q |-> q]
NonFinite == { [kind |-> k, q |-> 0] : k \in {"nan", "inf", "-inf"} }
IsFinite(v) == v.kind = "finite"

(* the sample the image holds at row r, column c *)
Sample(shape, r, c) == r * shape[2] + c

-----------------------------------------------------------------------------
(* make_multiple_cutouts *)

(* np.squeeze: the shape without its axes of length 1 *)
Squeeze(shape) == SelectSeq(shape, LAMBDA d : d # 1)

(* the row and column of the image that the squeezed array's [r][c] is *)
ArrayAt(shape, r, c) == Sample(shape, r, c)

(* the half-width rounded up, as (size + 1) // 2 would give *)
HalfUp(sz) == (sz + 1) \div 2
(* half_size = size // 2 *)
half_size(sz) == sz \div 2

(* rounding with exact halves going up, as floor(v + 0.5) would give *)
RoundHalfUp(q) == (2 * q + Unit) \div (2 * Unit)
(* round() of a float: nearest integer, exact halves to the even one *)
PyRound(q) ==
    LET fl == q \div Unit
        rem == q % Unit
    IN  IF 2 * rem < Unit THEN fl
        ELSE IF 2 * rem > Unit THEN fl + 1
        ELSE IF fl % 2 = 0 THEN fl ELSE fl + 1

(* the exception int(round(v)) raises on a non-finite v *)
RoundError(v) == IF v.kind = "nan" THEN "ValueError" ELSE "OverflowError"

(* a slice bound as numpy normalises it on an axis of length n *)
SliceBound(b, n) == IF b < 0 THEN Max(b + n, 0) ELSE Min(b, n)

(* the copy placed at the cutout's first row or column whatever the centre *)
CutoutStartZero(half, x) == 0
(* max(0, half_size - x) *)
CutoutStart(half, x) == Max(0, half - x)

(* np.full((size, size), np.nan) *)
Full(sz) == [r \in 0..(sz - 1) |-> [c \in 0..(sz - 1) |-> NaN]]

(* the locals of one pass of the loop body, lines 44-72, for rounded x, y *)
Locals(shape, sz, x, y) ==
    LET half == half_size(sz)
        x_start == Max(0, x - half)
        x_end == Min(shape[2], x + half + 1)
        y_start == Max(0, y - half)
        y_end == Min(shape[1], y + half + 1)
        cutout_x_start == CutoutStart(half, x)
        cutout_x_end == cutout_x_start + (x_end - x_start)
        cutout_y_start == CutoutStart(half, y)
        cutout_y_end == cutout_y_start + (y_end - y_start)
        overlap == x_end > x_start /\ y_end > y_start
        (* cutout[cutout_y_start:cutout_y_end, cutout_x_start:cutout_x_end] *)
        cy0 == SliceBound(cutout_y_start, sz)
        cy1 == SliceBound(cutout_y_end, sz)
        cx0 == SliceBound(cutout_x_start, sz)
        cx1 == SliceBound(cutout_x_end, sz)
        (* array[y_start:y_end, x_start:x_end] *)
        ay0 == SliceBound(y_start, shape[1])
        ay1 == SliceBound(y_end, shape[1])
        ax0 == SliceBound(x_start, shape[2])
        ax1 == SliceBound(x_end, shape[2])
        region_h == Max(0, cy1 - cy0)
        region_w == Max(0, cx1 - cx0)
        array_h == Max(0, ay1 - ay0)
        array_w == Max(0, ax1 - ax0)
    IN  [valid |-> TRUE, x |-> x, y |-> y, half |-> half,
         x_start |-> x_start, x_end |-> x_end,
         y_start |-> y_start, y_end |-> y_end,
         cutout_x_start |-> cutout_x_start, cutout_x_end |-> cutout_x_end,
         cutout_y_start |-> cutout_y_start, cutout_y_end |-> cutout_y_end,
         overlap |-> overlap,
         cy0 |-> cy0, cx0 |-> cx0, ay0 |-> ay0, ax0 |-> ax0,
         region_h |-> region_h, region_w |-> region_w,
         array_h |-> array_h, array_w |-> array_w,
         min_y |-> IF overlap THEN Min(region_h, array_h) ELSE 0,
         min_x |-> IF overlap THEN Min(region_w, array_w) ELSE 0]

NoLocals ==
    [valid |-> FALSE, x |-> 0, y |-> 0, half |-> 0,
     x_start |-> 0, x_end |-> 0, y_start |-> 0, y_end |-> 0,
     cutout_x_start |-> 0, cutout_x_end |-> 0,
     cutout_y_start |-> 0, cutout_y_end |-> 0,
     overlap |-> FALSE,
     cy0 |-> 0, cx0 |-> 0, ay0 |-> 0, ax0 |-> 0,
     region_h |-> 0, region_w |-> 0, array_h |-> 0, array_w |-> 0,
     min_y |-> 0, min_x |-> 0]

(* the cutout elements written and the array elements read by line 72 *)
Writes(L) ==
    { <<L.cy0 + k, L.cx0 + j>> : k \in 0..(L.min_y - 1), j \in 0..(L.min_x - 1) }
Reads(L) ==
    { <<L.ay0 + k, L.ax0 + j>> : k \in 0..(L.min_y - 1), j \in 0..(L.min_x - 1) }

(* cutout_region[:min_y, :min_x] = array_region[:min_y, :min_x] *)
Copy(shape, sz, L) ==
    [r \in 0..(sz - 1) |-> [c \in 0..(sz - 1) |->
        IF <<r, c>> \in Writes(L)
        THEN ArrayAt(shape, L.ay0 + (r - L.cy0), L.ax0 + (c - L.cx0))
        ELSE Full(sz)[r][c]]]

(* the cutout put in front, as cutouts.insert(0, cutout) would *)
PrependCutout(cs, cutout) == <<cutout>> \o cs
(* cutouts.append(cutout) *)
AppendCutout(cs, cutout) == Append(cs, cutout)

(* one pass of "for x, y in zip(x_pix, y_pix)", lines 42-75 *)
Iterate ==
    /\ pc = "loop"
    /\ i < Len(centres)
    /\ i' = i + 1
    /\ LET c == centres[i + 1]
           array_shape == Squeeze(image)
       IN  IF ~IsFinite(c.x) \/ ~IsFinite(c.y)
           THEN /\ pc' = "raised"
                /\ exc' = RoundError(IF ~IsFinite(c.x) THEN c.x ELSE c.y)
                /\ UNCHANGED <<cutouts, last>>
           ELSE IF size < 0
           THEN /\ pc' = "raised"
                /\ exc' = "ValueError"
                /\ UNCHANGED <<cutouts, last>>
           ELSE IF Len(array_shape) < 2
           THEN /\ pc' = "raised"
                /\ exc' = "IndexError"
                /\ UNCHANGED <<cutouts, last>>
           ELSE LET L == Locals(array_shape, size, PyRound(c.x.q), PyRound(c.y.q))
                IN  /\ last' = L
                    /\ cutouts' = AppendCutout(cutouts, Copy(array_shape, size, L))
                    /\ UNCHANGED <<pc, exc>>
    /\ UNCHANGED <<image, size, centres>>
    /\ UNCHANGED clipVars

(* "return cutouts", line 78 *)
Return ==
    /\ pc = "loop"
    /\ i = Len(centres)
    /\ pc' = "done"
    /\ UNCHANGED <<image, size, centres, cutouts, i, exc, last>>
    /\ UNCHANGED clipVars

-----------------------------------------------------------------------------
(* Inputs of make_multiple_cutouts *)

Shapes == { <<h, w>> : h \in 0..MaxDim, w \in 0..MaxDim }
Sizes == (-1)..MaxSize
Coords ==
    { Finite(q) : q \in (0 - CoordMargin * Unit)..((MaxDim - 1 + CoordMargin) * Unit) }
        \cup NonFinite
Centre == { [x |-> x, y |-> y] : x \in Coords, y \in Coords }

(* a few centres for calls with several: far outside, on the corner,     *)
(* inside, and two with a non-finite coordinate                          *)
BatchCentre ==
    { [x |-> Finite(0 - CoordMargin * Unit), y |-> Finite(0 - CoordMargin * Unit)],
      [x |-> Finite(0), y |-> Finite(0)],
      [x |-> Finite(Unit), y |-> Finite(Unit + 1)],
      [x |-> [kind |-> "nan", q |-> 0], y |-> Finite(0)],
      [x |-> Finite(Unit), y |-> [kind |-> "inf", q |-> 0]] }

SeqsUpTo(S, n) == UNION { [1..k -> S] : k \in 0..n }

ClipIdle ==
    /\ ms = <<>>
    /\ tabs = <<>>
    /\ time_clip_tables = <<>>
    /\ fs = <<>>
    /\ shell = {}
    /\ t = 0
    /\ mpc = "idle"
    /\ ret = "none"
    /\ min_times = <<>>
    /\ max_times = <<>>
    /\ bound = {}
    /\ handles = {}

CutStart ==
    /\ cutouts = <<>>
    /\ i = 0
    /\ pc = "loop"
    /\ exc = "none"
    /\ last = NoLocals

(* calls with at most one centre, at every coordinate of the grid *)
Init ==
    /\ image \in Shapes
    /\ size \in Sizes
    /\ centres \in {<<>>} \cup { <<c>> : c \in Centre }
    /\ CutStart
    /\ ClipIdle

(* calls with up to MaxCentres centres *)
InitBatch ==
    /\ image \in Shapes
    /\ size \in Sizes
    /\ centres \in SeqsUpTo(BatchCentre, MaxCentres)
    /\ CutStart
    /\ ClipIdle

Next == Iterate \/ Return

Spec == Init /\ [][Next]_vars
SpecBatch == InitBatch /\ [][Next]_vars

-----------------------------------------------------------------------------
(* msclip *)

TableNames == {"POINTING", "SYSPOWER"}

(* the paths of a table and of its '_keepers' copy *)
Paths == { [tab |-> n, keepers |-> k] : n \in TableNames, k \in BOOLEAN }
tabpath(n) == [tab |-> n, keepers |-> FALSE]
keeperspath(n) == [tab |-> n, keepers |-> TRUE]

Absent == [exists |-> FALSE, rows |-> <<>>]
Stored(rows) == [exists |-> TRUE, rows |-> rows]

SeqToSet(s) == { s[k] : k \in 1..Len(s) }
SetMin(S) == CHOOSE m \in S : \A n \in S : m <= n
SetMax(S) == CHOOSE m \in S : \A n \in S : m >= n

(* np.unique(ms.getcol(time_chunk_col)), ascending *)
RECURSIVE SortedSeq(_)
SortedSeq(S) ==
    IF S = {} THEN <<>> ELSE <<SetMin(S)>> \o SortedSeq(S \ {SetMin(S)})
unique_chunks(main) == SortedSeq({ main[k].chunk : k \in 1..Len(main) })

(* mstime[np.where(chunk_ids == val)] *)
chunktimes(main, val) ==
    { main[k].TIME : k \in { n \in 1..Len(main) : main[n].chunk = val } }

MinTimes(main) ==
    [k \in 1..Len(unique_chunks(main)) |-> SetMin(chunktimes(main, unique_chunks(main)[k]))]
MaxTimes(main) ==
    [k \in 1..Len(unique_chunks(main)) |-> SetMax(chunktimes(main, unique_chunks(main)[k]))]

(* "cliptab.nrows == 0": nrows is a method of casacore.tables.table, so  *)
(* the comparison is of a bound method with 0, which is False whatever   *)
(* the number of rows                                                    *)
NrowsIsZero(rows) == FALSE

(* condition.any(axis=1) for one row's TIME, line 61-64 *)
IsKeeper(time, mins, maxs) ==
    \E k \in 1..Len(mins) : time >= mins[k] /\ time <= maxs[k]

(* cliptab.selectrows(rownrs = keeper_indices) *)
Keepers(rows, mins, maxs) ==
    SelectSeq(rows, LAMBDA r : IsKeeper(r.TIME, mins, maxs))

(* lines 18-40: open the ms, find each chunk's first and last TIME *)
Prepare ==
    /\ mpc = "start"
    /\ handles' = handles \cup {"ms"}
    /\ IF Len(time_clip_tables) > 0
       THEN /\ min_times' = MinTimes(ms)
            /\ max_times' = MaxTimes(ms)
       ELSE UNCHANGED <<min_times, max_times>>
    /\ mpc' = "loop"
    /\ UNCHANGED <<ms, tabs, time_clip_tables, fs, shell, t, ret, bound>>
    /\ UNCHANGED cutVars

(* one pass of "for tabname in time_clip_tables", lines 43-73 *)
ClipTable ==
    /\ mpc = "loop"
    /\ t < Len(time_clip_tables)
    /\ t' = t + 1
    /\ LET tabname == time_clip_tables[t + 1]
           cliptab == fs[tabpath(tabname)]
       IN  IF ~cliptab.exists
           THEN (* table(tabpath) raises *)
                /\ mpc' = "except"
                /\ UNCHANGED <<fs, shell, bound, handles>>
           ELSE IF NrowsIsZero(cliptab.rows)
           THEN (* lines 48-50 *)
                /\ bound' = bound \cup {"cliptab"}
                /\ handles' = handles \ {"cliptab"}
                /\ UNCHANGED <<fs, shell, mpc>>
           ELSE IF Len(cliptab.rows) = 0
           THEN (* line 65 divides by len(cliptime) *)
                /\ bound' = bound \cup {"cliptab"}
                /\ handles' = handles \cup {"cliptab"}
                /\ mpc' = "except"
                /\ UNCHANGED <<fs, shell>>
           ELSE (* lines 66-73 *)
                /\ fs' = [fs EXCEPT ![keeperspath(tabname)] =
                            Stored(Keepers(cliptab.rows, min_times, max_times))]
                /\ bound' = bound \cup {"cliptab", "keepers"}
                /\ handles' = handles \ {"ms", "keepers", "cliptab"}
                /\ shell' = shell \cup {[tab |-> tabname, step |-> "rm"]}
                /\ UNCHANGED mpc
    /\ UNCHANGED <<ms, tabs, time_clip_tables, ret, min_times, max_times>>
    /\ UNCHANGED cutVars

(* "for tab in [ms, keepers, cliptab]: tab.done()" inside try/except:   *)
(* building the list raises NameError when a name is unbound, and then  *)
(* nothing is closed                                                    *)
DoneAll(h, b) == IF {"keepers", "cliptab"} \subseteq b THEN {} ELSE h

(* the except branch, lines 76-87 *)
Except ==
    /\ mpc = "except"
    /\ handles' = DoneAll(handles, bound)
    /\ ret' = "None"
    /\ mpc' = "done"
    /\ UNCHANGED <<ms, tabs, time_clip_tables, fs, shell, t, min_times, max_times, bound>>
    /\ UNCHANGED cutVars

(* the wrap up, lines 92-104 *)
WrapUp ==
    /\ mpc = "loop"
    /\ t = Len(time_clip_tables)
    /\ handles' = DoneAll(handles, bound)
    /\ ret' = "runtime"
    /\ mpc' = "done"
    /\ UNCHANGED <<ms, tabs, time_clip_tables, fs, shell, t, min_times, max_times, bound>>
    /\ UNCHANGED cutVars

(* the command os.popen started, line 73: "rm -rf tabpath" ...           *)
ShellRm ==
    /\ \E job \in shell :
        /\ job.step = "rm"
        /\ fs' = [fs EXCEPT ![tabpath(job.tab)] = Absent]
        /\ shell' = (shell \ {job}) \cup {[tab |-> job.tab, step |-> "mv"]}
    /\ UNCHANGED <<ms, tabs, time_clip_tables, t, mpc, ret, min_times, max_times,
                   bound, handles>>
    /\ UNCHANGED cutVars

(* ... "&& mv tabpath_keepers tabpath" *)
ShellMv ==
    /\ \E job \in shell :
        /\ job.step = "mv"
        /\ fs' = [fs EXCEPT ![tabpath(job.tab)] = fs[keeperspath(job.tab)],
                            ![keeperspath(job.tab)] = Absent]
        /\ shell' = shell \ {job}
    /\ UNCHANGED <<ms, tabs, time_clip_tables, t, mpc, ret, min_times, max_times,
                   bound, handles>>
    /\ UNCHANGED cutVars

(* Inputs of msclip: a main table with at least one row, the two tables, *)
(* and a list of distinct table names                                    *)
MsRows == { [chunk |-> c, TIME |-> tm] : c \in 0..MaxChunk, tm \in 0..MaxTime }
MainTables == SeqsUpTo(MsRows, MaxMsRows) \ {<<>>}
TimeSeqs == SeqsUpTo(0..MaxTime, MaxTabRows)
(* a table's rows: each its row number and its TIME *)
TableOf(times) == [k \in 1..Len(times) |-> [row |-> k - 1, TIME |-> times[k]]]
NameLists ==
    { s \in SeqsUpTo(TableNames, Cardinality(TableNames)) :
        \A a, b \in 1..Len(s) : a # b => s[a] # s[b] }

CutIdle ==
    /\ image = <<0, 0>>
    /\ size = 1
    /\ centres = <<>>
    /\ cutouts = <<>>
    /\ i = 0
    /\ pc = "idle"
    /\ exc = "none"
    /\ last = NoLocals

InitClip ==
    /\ ms \in MainTables
    /\ tabs \in [TableNames -> { TableOf(ts) : ts \in TimeSeqs }]
    /\ time_clip_tables \in NameLists
    /\ fs = [p \in Paths |-> IF p.keepers THEN Absent ELSE Stored(tabs[p.tab])]
    /\ shell = {}
    /\ t = 0
    /\ mpc = "start"
    /\ ret = "none"
    /\ min_times = <<>>
    /\ max_times = <<>>
    /\ bound = {}
    /\ handles = {}
    /\ CutIdle

NextClip == Prepare \/ ClipTable \/ Except \/ WrapUp \/ ShellRm \/ ShellMv

SpecClip == InitClip /\ [][NextClip]_vars

-----------------------------------------------------------------------------
(* Properties of make_multiple_cutouts *)

ValidSize == size > 0 /\ size % 2 = 1
ValidRaster == image[1] >= 1 /\ image[2] >= 1
(* a raster np.squeeze leaves two-dimensional and non-empty *)
Raster2D == image[1] >= 2 /\ image[2] >= 2
InRaster(r, c) == r >= 0 /\ r < image[1] /\ c >= 0 /\ c < image[2]
CentreFinite(k) == IsFinite(centres[k].x) /\ IsFinite(centres[k].y)
AllSentinel(cutout) ==
    \A r \in DOMAIN cutout : \A c \in DOMAIN cutout[r] : cutout[r][c] = NaN

(* the size x size window around pixel (xi, yi): the raster's sample where *)
(* the raster has one, the sentinel elsewhere                              *)
WindowAround(xi, yi) ==
    [r \in 0..(size - 1) |-> [c \in 0..(size - 1) |->
        IF InRaster(yi - (size - 1) \div 2 + r, xi - (size - 1) \div 2 + c)
        THEN Sample(image, yi - (size - 1) \div 2 + r, xi - (size - 1) \div 2 + c)
        ELSE NaN]]

Abs(a) == IF a < 0 THEN 0 - a ELSE a

(* n is the integer nearest to q / Unit, the even one of the two on a tie *)
NearestTiesToEven(n, q) ==
    /\ 2 * Abs(Unit * n - q) <= Unit
    /\ 2 * Abs(Unit * n - q) = Unit => n % 2 = 0

(* C1: for an odd positive size and a raster of at least one row and one   *)
(* column, every element (r, c) of the cutout of a centre that rounds to   *)
(* (xi, yi) is the raster's sample at (yi - half + r, xi - half + c) when  *)
(* that is an index of the raster, and the sentinel NaN otherwise.         *)
C1_CutoutMatchesRaster ==
    (ValidSize /\ ValidRaster) =>
        \A k \in 1..Len(cutouts) :
            LET xi == PyRound(centres[k].x.q)
                yi == PyRound(centres[k].y.q)
                half == (size - 1) \div 2
            IN  \A r \in 0..(size - 1) : \A c \in 0..(size - 1) :
                    IF InRaster(yi - half + r, xi - half + c)
                    THEN cutouts[k][r][c] = Sample(image, yi - half + r, xi - half + c)
                    ELSE cutouts[k][r][c] = NaN

(* a returned cutout whose window lies partly off the raster, on the low   *)
(* side of both axes *)
C1_Witness ==
    /\ ValidSize /\ ValidRaster /\ size >= 3
    /\ pc = "done" /\ Len(cutouts) = 1
    /\ cutouts[1][0][0] = NaN
    /\ cutouts[1][size - 1][size - 1] # NaN

(* C2: for a valid size the batch holds one cutout per centre taken so     *)
(* far, in the order of the centres, each of size x size elements, and the *)
(* batch returned holds one per input centre.                              *)
C2_OneCutoutPerCentreInOrder ==
    ValidSize =>
        /\ pc = "loop" => Len(cutouts) = i
        /\ pc = "done" => Len(cutouts) = Len(centres)
        /\ \A k \in 1..Len(cutouts) :
            /\ DOMAIN cutouts[k] = 0..(size - 1)
            /\ \A r \in 0..(size - 1) : DOMAIN cutouts[k][r] = 0..(size - 1)
            /\ CentreFinite(k)
            /\ cutouts[k] = WindowAround(PyRound(centres[k].x.q), PyRound(centres[k].y.q))

(* a returned batch of two different cutouts, the first all sentinel *)
C2_Witness ==
    /\ ValidSize /\ pc = "done"
    /\ Len(centres) = MaxCentres /\ Len(cutouts) = MaxCentres
    /\ AllSentinel(cutouts[1])
    /\ ~AllSentinel(cutouts[2])

(* C3: for a raster of at least one row and one column, an odd positive    *)
(* size and a finite centre, the extraction does not raise, reads only     *)
(* indices of the raster and writes only indices of the cutout.            *)
C3_ExtractionNeverRaises ==
    (ValidSize /\ ValidRaster /\ i >= 1 /\ CentreFinite(i)) =>
        /\ pc # "raised"
        /\ \A rd \in Reads(last) : InRaster(rd[1], rd[2])
        /\ \A wr \in Writes(last) :
            wr[1] \in 0..(size - 1) /\ wr[2] \in 0..(size - 1)

(* C4: a call with an even or non-positive size is rejected before any     *)
(* work starts: it returns no batch and builds no cutout (stated for the   *)
(* rasters that are otherwise accepted).                                   *)
C4_BadSizeRejected ==
    (Raster2D /\ (size <= 0 \/ size % 2 = 0)) => (pc # "done" /\ cutouts = <<>>)

(* C5: a centre with a non-finite coordinate yields an all-sentinel cutout *)
(* at its position and does not make the call raise (stated for the valid  *)
(* sizes and the rasters that are otherwise accepted).                     *)
C5_NonFiniteCentreYieldsSentinel ==
    \A k \in 1..i :
        (ValidSize /\ Raster2D /\ ~CentreFinite(k)) =>
            /\ pc # "raised"
            /\ Len(cutouts) >= k
            /\ AllSentinel(cutouts[k])

(* C6: a call on a raster with zero rows or zero columns is rejected: it   *)
(* returns no batch (stated for the valid sizes and at least one centre).  *)
C6_EmptyRasterRejected ==
    (ValidSize /\ Len(centres) >= 1 /\ (image[1] = 0 \/ image[2] = 0)) => pc # "done"

(* C8: for an odd positive size and a non-empty overlap the cutout-local   *)
(* rectangle lies inside the cutout, has the shape of the raster           *)
(* rectangle and is the raster rectangle moved by the window's nominal     *)
(* top-left corner, so the re-clamp to (min_y, min_x) truncates nothing.   *)
C8_ClampNeverTruncates ==
    (ValidSize /\ ValidRaster /\ last.valid /\ last.overlap) =>
        /\ last.cutout_y_start >= 0 /\ last.cutout_y_end <= size
        /\ last.cutout_x_start >= 0 /\ last.cutout_x_end <= size
        /\ last.cutout_y_end - last.cutout_y_start = last.y_end - last.y_start
        /\ last.cutout_x_end - last.cutout_x_start = last.x_end - last.x_start
        /\ last.cutout_y_start = last.y_start - (last.y - (size - 1) \div 2)
        /\ last.cutout_x_start = last.x_start - (last.x - (size - 1) \div 2)
        /\ last.region_h = last.y_end - last.y_start
        /\ last.array_h = last.y_end - last.y_start
        /\ last.region_w = last.x_end - last.x_start
        /\ last.array_w = last.x_end - last.x_start
        /\ last.min_y = last.y_end - last.y_start
        /\ last.min_x = last.x_end - last.x_start

(* an overlap with the window hanging off the raster on both sides of the  *)
(* x axis and on the high side of the y axis *)
C8_Witness ==
    /\ ValidSize /\ ValidRaster /\ last.valid /\ last.overlap
    /\ last.cutout_x_start > 0 /\ last.cutout_x_end < size
    /\ last.cutout_y_start = 0 /\ last.cutout_y_end < size

(* C10: x and y are rounded by the one rule, to the nearest integer with   *)
(* exact halves going to the even neighbour, and for a valid size the      *)
(* window copied is the one of half-width half around the rounded centre.  *)
C10_RoundHalfToEven ==
    (last.valid /\ Len(cutouts) >= 1) =>
        /\ NearestTiesToEven(last.x, centres[Len(cutouts)].x.q)
        /\ NearestTiesToEven(last.y, centres[Len(cutouts)].y.q)
        /\ ValidSize => cutouts[Len(cutouts)] = WindowAround(last.x, last.y)

(* the centre (0.5, 1.5) rounded to (0, 2) *)
C10_Witness ==
    /\ last.valid /\ Len(cutouts) = 1 /\ ValidSize /\ last.overlap
    /\ 2 * centres[1].x.q = Unit /\ last.x = 0
    /\ 2 * centres[1].y.q = 3 * Unit /\ last.y = 2

-----------------------------------------------------------------------------
(* Properties of msclip *)

(* TIME tm lies within the first and last main-table TIME of some chunk *)
WithinSomeChunk(tm) ==
    \E c \in { ms[k].chunk : k \in 1..Len(ms) } :
        /\ \E k \in 1..Len(ms) : ms[k].chunk = c /\ ms[k].TIME <= tm
        /\ \E k \in 1..Len(ms) : ms[k].chunk = c /\ ms[k].TIME >= tm

(* C7: once msclip has returned and its shell commands have run, every     *)
(* listed table that had a row holds, at its own path, exactly its rows    *)
(* whose TIME lies within some chunk's first and last TIME.                *)
C7_ListedTablesClipped ==
    (mpc = "done" /\ shell = {}) =>
        \A k \in 1..Len(time_clip_tables) :
            LET n == time_clip_tables[k]
            IN  Len(tabs[n]) >= 1 =>
                    fs[tabpath(n)] =
                        Stored(SelectSeq(tabs[n], LAMBDA r : WithinSomeChunk(r.TIME)))

(* C9: a listed table with no rows is left as it is, with no '_keepers'    *)
(* copy, and msclip goes on through the list and returns the runtime.      *)
C9_EmptyTableSkipped ==
    \A k \in 1..t :
        LET n == time_clip_tables[k]
        IN  Len(tabs[n]) = 0 =>
                /\ fs[tabpath(n)] = Stored(<<>>)
                /\ ~fs[keeperspath(n)].exists
                /\ mpc # "except"
                /\ mpc = "done" => (ret = "runtime" /\ t = Len(time_clip_tables))

====
